---- MODULE Spec2Model ----
(***************************************************************************)
(* Model of the bfi interpreter (src/src/interpreter.rs): the execution    *)
(* engine InterpreterInner::run_body, the two mpsc channels that link it   *)
(* to its caller, and the two ways of running it, Interpreter::run (batch) *)
(* and Interpreter::spawn (streaming).                                     *)
(*                                                                         *)
(* The tape is vec![Wrapping(0); 30000]; it is kept here as the function   *)
(* of its nonzero cells (every other index below TapeLen holds 0), so the  *)
(* length and every index of the program keep their real values.           *)
(* memory_pointer and the offsets are isize; the bounds used are those of  *)
(* a 32-bit target, the widest TLC's integers hold.                        *)
(* A panic (an unwrap() of Err, an index out of range, an arithmetic       *)
(* overflow in a build that checks it) ends the engine in state            *)
(* "Panicked": it is neither Completed nor Faulted.                        *)
(***************************************************************************)
EXTENDS Integers, Sequences, FiniteSets, TLC

\* ------------------------------------------------------------ constants

\* vec![Wrapping(0); 30000]
TapeLen == 30000
\* isize::MAX and isize::MIN (memory_pointer: isize)
ISIZE_MAX == 2147483647
ISIZE_MIN == -ISIZE_MAX - 1

\* Bounds of the model
MaxBudget == 6
MaxInput == 3
MaxIncs == 2
MaxOps == 2
MaxPairs == 2
MaxRuns == 2

\* Bytes the caller feeds to the input channel
InputBytes == {0, 1, 2, 3}

I8 == -128 .. 127
U8 == 0 .. 255
\* Amounts at the edges of i8, drawn after the first Increment of IncSpec
EdgeI8 == {-128, -127, -2, -1, 0, 1, 2, 126, 127}

\* ------------------------------------------------------------ AstNode

Increment(a, o) ==
    [op |-> "Increment", amount |-> a, offset |-> o, body |-> <<>>, changes |-> <<>>]
PointerIncrement(a) ==
    [op |-> "PointerIncrement", amount |-> a, offset |-> 0, body |-> <<>>, changes |-> <<>>]
Read == [op |-> "Read", amount |-> 0, offset |-> 0, body |-> <<>>, changes |-> <<>>]
Write == [op |-> "Write", amount |-> 0, offset |-> 0, body |-> <<>>, changes |-> <<>>]
Loop(b) == [op |-> "Loop", amount |-> 0, offset |-> 0, body |-> b, changes |-> <<>>]
Set(a, o) ==
    [op |-> "Set", amount |-> a, offset |-> o, body |-> <<>>, changes |-> <<>>]
MultiplyMove(c) ==
    [op |-> "MultiplyMove", amount |-> 0, offset |-> 0, body |-> <<>>, changes |-> c]

\* The instruction sequences the runs are started on
Programs ==
    { <<>>,
      <<Read, Write, Read, Write, Read, Write>>,
      <<Read, Write>>,
      <<Increment(1, 0), Increment(1, 0)>>,
      <<Increment(3, 0), Write>>,
      <<Increment(1, 0), Loop(<<Increment(-1, 0)>>)>>,
      <<Loop(<<Increment(-1, 0)>>)>>,
      <<Set(1, 0), Set(1, 1), Loop(<<PointerIncrement(1)>>)>>,
      <<PointerIncrement(-1), Increment(1, 0), Write>>,
      <<Increment(1, 0), Loop(<<>>)>>,
      <<Increment(1, 0), Loop(<<PointerIncrement(1), Increment(1, 0), PointerIncrement(-1)>>)>>,
      <<Increment(2, 0), Loop(<<Loop(<<Increment(-1, 0)>>), Write>>)>>,
      <<Read, Loop(<<Write, Increment(-1, 0)>>)>>,
      <<Read, Loop(<<Read>>), Write>>,
      <<Increment(-1, 0), Write, Increment(2, 0), Write>>,
      <<Increment(1, 0), Write, Write, PointerIncrement(-1), Write>>,
      <<Write, Increment(1, -1), Write>>,
      <<PointerIncrement(TapeLen), Read>>,
      <<PointerIncrement(TapeLen), Write>>,
      <<PointerIncrement(TapeLen), Loop(<<>>)>>,
      <<PointerIncrement(TapeLen), MultiplyMove(<< <<-1, 1>> >>)>>,
      <<PointerIncrement(TapeLen - 1), Increment(1, 0), PointerIncrement(1), Increment(1, -1), Write>>,
      <<PointerIncrement(TapeLen - 1), Increment(1, 0), Write, Increment(1, 1)>>,
      <<PointerIncrement(TapeLen + 1), Write>>,
      <<PointerIncrement(1), Increment(1, ISIZE_MAX)>>,
      <<Set(1, ISIZE_MIN)>>,
      <<PointerIncrement(1), PointerIncrement(ISIZE_MAX), Write>>,
      <<Set(-128, 0), Write, Set(5, 1), Set(0, 0), Write>>,
      <<Set(3, 0), MultiplyMove(<< <<1, 2>>, <<2, -1>> >>), PointerIncrement(1), Write>>,
      <<Increment(1, 0), Write, MultiplyMove(<< <<1, 1>>, <<-1, 1>> >>), Write>>,
      <<MultiplyMove(<< <<1, 1>> >>), Write>> }

\* RunTimeError
RunTimeError == {"OutOfBoundsLeft", "OutOfBoundsRight", "MaxIterationsExceeded"}

\* Items of the output channel: Result<Wrapping<u8>, RunTimeError>
OkItem(b) == [err |-> "None", byte |-> b]
ErrItem(k) == [err |-> k, byte |-> 0]

\* ------------------------------------------------------------ the tape

\* self.memory[i], for an index below self.memory.len()
Cell(mem, i) == IF i \in DOMAIN mem THEN mem[i] ELSE 0

\* self.memory[i] = v
Store(mem, i, v) ==
    IF v = 0
    THEN [j \in (DOMAIN mem) \ {i} |-> mem[j]]
    ELSE [j \in (DOMAIN mem) \cup {i} |-> IF j = i THEN v ELSE mem[j]]

\* Wrapping<u8> arithmetic
WrapU8(n) == n % 256

\* i8::unsigned_abs
UnsignedAbs(a) == IF a < 0 THEN -a ELSE a

\* isize::checked_add overflows
AddOverflows(p, o) ==
    \/ o > 0 /\ p > ISIZE_MAX - o
    \/ o < 0 /\ p < ISIZE_MIN - o

\* A bug EffectiveAddress could have: the comparison PointerIncrement makes,
\* which lets an index equal to memory.len() pass
EffectiveAddressOffByOne(p, o) ==
    IF AddOverflows(p, o) THEN [err |-> "OutOfBoundsRight", index |-> 0]
    ELSE IF p + o < 0 THEN [err |-> "OutOfBoundsLeft", index |-> 0]
    ELSE IF p + o > TapeLen THEN [err |-> "OutOfBoundsRight", index |-> 0]
    ELSE [err |-> "None", index |-> p + o]

\* memory_pointer.checked_add(offset), the conversion to usize and the check
\* against memory.len(): the index, or the error that is sent
EffectiveAddress(p, o) ==
    IF AddOverflows(p, o) THEN [err |-> "OutOfBoundsRight", index |-> 0]
    ELSE IF p + o < 0 THEN [err |-> "OutOfBoundsLeft", index |-> 0]
    ELSE IF p + o >= TapeLen THEN [err |-> "OutOfBoundsRight", index |-> 0]
    ELSE [err |-> "None", index |-> p + o]

\* A bug IncrementCell could have: u8 arithmetic that saturates instead of wrapping
IncrementCellSaturating(mem, index, amount) ==
    LET s == Cell(mem, index) + amount
    IN Store(mem, index, IF s < 0 THEN 0 ELSE IF s > 255 THEN 255 ELSE s)

\* match amount.0.cmp(&0) { Less => -=, Equal => {}, Greater => += }
IncrementCell(mem, index, amount) ==
    IF amount < 0 THEN Store(mem, index, WrapU8(Cell(mem, index) - UnsignedAbs(amount)))
    ELSE IF amount = 0 THEN mem
    ELSE Store(mem, index, WrapU8(Cell(mem, index) + UnsignedAbs(amount)))

\* A bug ToWrappedU8 could have: the magnitude, without the negation
ToWrappedU8Magnitude(a) == UnsignedAbs(a)

\* The i8 as a Wrapping<u8>: -Wrapping(abs), Wrapping(0), Wrapping(abs)
ToWrappedU8(a) ==
    IF a < 0 THEN WrapU8(-UnsignedAbs(a))
    ELSE IF a = 0 THEN 0
    ELSE UnsignedAbs(a)

\* AstNode::Increment: the tape after it and the error it sends
ExecIncrement(mem, p, amount, offset) ==
    LET a == EffectiveAddress(p, offset)
    IN IF a.err # "None" THEN [mem |-> mem, err |-> a.err]
       ELSE [mem |-> IncrementCell(mem, a.index, amount), err |-> "None"]

\* AstNode::Set
ExecSet(mem, p, amount, offset) ==
    LET a == EffectiveAddress(p, offset)
    IN IF a.err # "None" THEN [mem |-> mem, err |-> a.err]
       ELSE [mem |-> Store(mem, a.index, ToWrappedU8(amount)), err |-> "None"]

\* A bug MoveChanges could have: the cell at the pointer is read again for
\* every pair, instead of once before the loop
RECURSIVE MoveChangesRereading(_, _, _, _, _)
MoveChangesRereading(mem, p, current, changes, k) ==
    IF k > Len(changes) THEN [mem |-> mem, err |-> "None"]
    ELSE LET a == EffectiveAddress(p, changes[k][1])
         IN IF a.err # "None" THEN [mem |-> mem, err |-> a.err]
            ELSE MoveChangesRereading(
                   Store(mem, a.index,
                         WrapU8(Cell(mem, a.index) + Cell(mem, p) * ToWrappedU8(changes[k][2]))),
                   p, current, changes, k + 1)

\* The for loop of AstNode::MultiplyMove over changes[k..], current being the
\* value read before it
RECURSIVE MoveChanges(_, _, _, _, _)
MoveChanges(mem, p, current, changes, k) ==
    IF k > Len(changes) THEN [mem |-> mem, err |-> "None"]
    ELSE LET a == EffectiveAddress(p, changes[k][1])
         IN IF a.err # "None" THEN [mem |-> mem, err |-> a.err]
            ELSE MoveChanges(
                   Store(mem, a.index,
                         WrapU8(Cell(mem, a.index) + current * ToWrappedU8(changes[k][2]))),
                   p, current, changes, k + 1)

\* A bug ExecMultiplyMove could have: the cell at the pointer is not set to 0
ExecMultiplyMoveKeepsSource(mem, p, changes) ==
    LET current == Cell(mem, p)
    IN IF current = 0 THEN [mem |-> mem, err |-> "None"]
       ELSE MoveChanges(mem, p, current, changes, 1)

\* AstNode::MultiplyMove, for a pointer that indexes the tape
ExecMultiplyMove(mem, p, changes) ==
    LET current == Cell(mem, p)
    IN IF current = 0 THEN [mem |-> mem, err |-> "None"]
       ELSE LET r == MoveChanges(mem, p, current, changes, 1)
            IN IF r.err # "None" THEN r
               ELSE [mem |-> Store(r.mem, p, 0), err |-> "None"]

\* AstNode::PointerIncrement: self.memory_pointer += amount, then the two
\* comparisons. The addition is unchecked: on overflow a build with overflow
\* checks panics and one without wraps, so both outcomes are possible.
MovePointer(p, amount) ==
    LET check(q) ==
          [ptr |-> q, panic |-> FALSE,
           err |-> IF q < 0 THEN "OutOfBoundsLeft"
                   ELSE IF q > TapeLen THEN "OutOfBoundsRight"
                   ELSE "None"]
    IN IF AddOverflows(p, amount)
       THEN { [ptr |-> p, panic |-> TRUE, err |-> "None"],
              IF amount > 0
              THEN check((p - ISIZE_MAX - 1) + (amount - ISIZE_MAX - 1))
              ELSE check((p + ISIZE_MAX + 1) + (amount + ISIZE_MAX + 1)) }
       ELSE { check(p + amount) }

\* ------------------------------------------------------------ state

VARIABLES
    mode,            \* "batch": Interpreter::run, "stream": Interpreter::spawn
    phase,           \* batch: where Interpreter::run is: "load", "exec", "done"
    input,           \* batch: the inputs argument of Interpreter::run
    instructions,    \* Interpreter.instructions
    max_iterations,  \* Interpreter.max_iterations
    memory,          \* InterpreterInner.memory
    memory_pointer,  \* InterpreterInner.memory_pointer
    iterations,      \* InterpreterInner.iterations
    stack,           \* the run_body calls in progress, the innermost last
    state,           \* "Running", "Completed", "Faulted", "Panicked"
    fault,           \* the RunTimeError the engine raised, or "None"
    abort,           \* the panic that ended the engine, or "None"
    inq,             \* the input channel: bytes sent and not yet received
    outq,            \* the output channel: items sent and not yet received
    txAlive,         \* the caller still holds input_tx
    rxAlive,         \* the caller still holds output_rx
    enq,             \* history: every byte sent on the input channel, in order
    sent,            \* history: every item sent on the output channel, in order
    recvd,           \* the items the caller has received from output_rx
    result,          \* batch: the value Interpreter::run returned
    tape0,           \* IncSpec: the tape the Increments started from
    incSum,          \* IncSpec: the sum of the amounts applied so far
    runs,            \* the runs started from this Interpreter so far
    prev             \* how the last call of Interpreter::run that ended has ended

engineVars == <<memory, memory_pointer, iterations, stack, state, fault, abort>>
chanVars == <<inq, outq, enq, sent>>
callerVars == <<phase, txAlive, rxAlive, recvd, result>>
configVars == <<mode, input, instructions, max_iterations, tape0, incSum, runs, prev>>
vars == <<engineVars, chanVars, callerVars, configVars>>

NoResult == [tag |-> "None", out |-> <<>>, err |-> "None"]

\* No call of Interpreter::run has ended yet
NoOutcome ==
    [ended |-> FALSE, input |-> <<>>, phase |-> "None", result |-> NoResult,
     state |-> "None", fault |-> "None", abort |-> "None", sent |-> <<>>]

\* A run_body call: its body, the index of its next instruction, and where
\* the instruction at pc is: "fetch" (not dispatched), "loop" (a Loop at its
\* while test), "recv" (a Read at inputs.recv())
Frame(b) == [body |-> b, pc |-> 1, st |-> "fetch"]

\* Interpreter::create: a fresh InterpreterInner and two empty channels
Create ==
    /\ memory = <<>>
    /\ memory_pointer = 0
    /\ iterations = 0
    /\ stack = <<Frame(instructions)>>
    /\ state = "Running"
    /\ fault = "None"
    /\ abort = "None"
    /\ inq = <<>>
    /\ outq = <<>>
    /\ enq = <<>>
    /\ sent = <<>>
    /\ txAlive = TRUE
    /\ rxAlive = TRUE
    /\ recvd = <<>>
    /\ result = NoResult

RECURSIVE SeqsUpTo(_, _)
SeqsUpTo(S, n) ==
    IF n = 0 THEN {<<>>}
    ELSE LET shorter == SeqsUpTo(S, n - 1)
         IN shorter \cup {Append(q, b) : q \in shorter, b \in S}

\* Interpreter::new, then Interpreter::run(inputs) or Interpreter::spawn()
Init ==
    /\ instructions \in Programs
    /\ max_iterations \in 0 .. MaxBudget
    /\ \/ mode = "batch" /\ phase = "load" /\ input \in SeqsUpTo(InputBytes, MaxInput)
       \/ mode = "stream" /\ phase = "spawned" /\ input = <<>>
    /\ tape0 = <<>>
    /\ incSum = 0
    /\ runs = 1
    /\ prev = NoOutcome
    /\ Create

\* ------------------------------------------------------------ the engine

Top == stack[Len(stack)]
Instr == Top.body[Top.pc]

\* A bug EngineRuns could have: an Err(()) that does not end the callers of
\* run_body, so that the engine goes on after a fault
EngineRunsAfterFault ==
    /\ state \in {"Running", "Faulted"}
    /\ mode = "stream" \/ (mode = "batch" /\ phase = "exec")

\* The engine's thread runs: after inner.run() or inside inner.run_blocking()
EngineRuns ==
    /\ state = "Running"
    /\ mode = "stream" \/ (mode = "batch" /\ phase = "exec")

\* The for loop of run_body is at an instruction it has not dispatched
AtInstruction ==
    /\ EngineRuns
    /\ Top.st = "fetch"
    /\ Top.pc <= Len(Top.body)

\* A bug OverBudget could have: the budget compared with >= instead of >
OverBudgetOffByOne == iterations + 1 >= max_iterations

\* self.iterations > self.max_iterations, after the increment
OverBudget == iterations + 1 > max_iterations

\* self.iterations += 1, and the budget is not exceeded: the match is reached
Dispatch(opname) ==
    /\ AtInstruction
    /\ Instr.op = opname
    /\ ~OverBudget
    /\ iterations' = iterations + 1

\* The for loop moves to the next instruction of the body
Advance == stack' = [stack EXCEPT ![Len(stack)] = [@ EXCEPT !.pc = @ + 1, !.st = "fetch"]]

\* A bug SendOutput could have: the item goes to the front of the channel
SendOutputFirst(q, item) == <<item>> \o q

\* Sender::send on a channel that holds q
SendOutput(q, item) == Append(q, item)

\* A bug Raise could have: the error is sent and the run goes on
RaiseAndContinue(kind) ==
    /\ fault' = kind
    /\ IF rxAlive
       THEN /\ outq' = SendOutput(outq, ErrItem(kind))
            /\ sent' = Append(sent, ErrItem(kind))
            /\ state' = state
            /\ abort' = abort
       ELSE /\ state' = "Panicked"
            /\ abort' = "SendError"
            /\ UNCHANGED <<outq, sent>>

\* self.outputs.send(Err(kind)).unwrap(); return Err(()): the send fails, and
\* unwrap() panics, when output_rx has been dropped
Raise(kind) ==
    /\ fault' = kind
    /\ IF rxAlive
       THEN /\ outq' = SendOutput(outq, ErrItem(kind))
            /\ sent' = Append(sent, ErrItem(kind))
            /\ state' = "Faulted"
            /\ abort' = abort
       ELSE /\ state' = "Panicked"
            /\ abort' = "SendError"
            /\ UNCHANGED <<outq, sent>>

\* A panic of the engine's thread
Panic(why) ==
    /\ state' = "Panicked"
    /\ abort' = why
    /\ UNCHANGED fault

\* run_body, lines 119-125: the dispatch that exceeds the budget
BudgetExceeded ==
    /\ AtInstruction
    /\ OverBudget
    /\ iterations' = iterations + 1
    /\ Raise("MaxIterationsExceeded")
    /\ UNCHANGED <<memory, memory_pointer, stack, inq, enq, callerVars, configVars>>

\* An instruction whose effect on the tape is r.mem, or which sends r.err
TapeStep(r) ==
    /\ IF r.err # "None"
       THEN /\ Raise(r.err)
            /\ UNCHANGED stack
       ELSE /\ Advance
            /\ UNCHANGED <<state, fault, abort, outq, sent>>
    /\ memory' = r.mem
    /\ UNCHANGED <<memory_pointer, inq, enq, callerVars, configVars>>

DoIncrement ==
    /\ Dispatch("Increment")
    /\ TapeStep(ExecIncrement(memory, memory_pointer, Instr.amount, Instr.offset))

DoSet ==
    /\ Dispatch("Set")
    /\ TapeStep(ExecSet(memory, memory_pointer, Instr.amount, Instr.offset))

\* self.memory[self.memory_pointer as usize] panics for a pointer at memory.len()
DoMultiplyMove ==
    /\ Dispatch("MultiplyMove")
    /\ IF memory_pointer >= TapeLen
       THEN /\ Panic("IndexOutOfBounds")
            /\ UNCHANGED <<memory, memory_pointer, stack, chanVars, callerVars, configVars>>
       ELSE TapeStep(ExecMultiplyMove(memory, memory_pointer, Instr.changes))

DoPointerIncrement ==
    /\ Dispatch("PointerIncrement")
    /\ \E r \in MovePointer(memory_pointer, Instr.amount) :
         /\ memory_pointer' = r.ptr
         /\ IF r.panic
            THEN Panic("Overflow") /\ UNCHANGED <<stack, outq, sent>>
            ELSE IF r.err # "None"
            THEN Raise(r.err) /\ UNCHANGED stack
            ELSE Advance /\ UNCHANGED <<state, fault, abort, outq, sent>>
    /\ UNCHANGED <<memory, inq, enq, callerVars, configVars>>

\* AstNode::Read is dispatched: the engine is now in self.inputs.recv()
DoRead ==
    /\ Dispatch("Read")
    /\ stack' = [stack EXCEPT ![Len(stack)] = [@ EXCEPT !.st = "recv"]]
    /\ UNCHANGED <<memory, memory_pointer, state, fault, abort, chanVars, callerVars, configVars>>

\* A bug RecvInput could have: the newest byte is received first
RecvInputNewest(q) == [byte |-> q[Len(q)], rest |-> SubSeq(q, 1, Len(q) - 1)]

\* Receiver::recv on a channel that holds q: the oldest byte
RecvInput(q) == [byte |-> Head(q), rest |-> Tail(q)]

\* self.memory[self.memory_pointer as usize] = self.inputs.recv().unwrap():
\* recv() returns the oldest byte; it blocks while the channel is empty and
\* input_tx lives, and returns Err, on which unwrap() panics, once input_tx is
\* dropped. The value is received before the tape is indexed.
ReadRecv ==
    /\ EngineRuns
    /\ Top.st = "recv"
    /\ IF inq # <<>>
       THEN /\ inq' = RecvInput(inq).rest
            /\ IF memory_pointer >= TapeLen
               THEN Panic("IndexOutOfBounds") /\ UNCHANGED <<memory, stack>>
               ELSE /\ memory' = Store(memory, memory_pointer, RecvInput(inq).byte)
                    /\ Advance
                    /\ UNCHANGED <<state, fault, abort>>
       ELSE /\ ~txAlive
            /\ Panic("RecvError")
            /\ UNCHANGED <<inq, memory, stack>>
    /\ UNCHANGED <<memory_pointer, iterations, outq, enq, sent, callerVars, configVars>>

\* self.outputs.send(Ok(self.memory[self.memory_pointer as usize])).unwrap()
DoWrite ==
    /\ Dispatch("Write")
    /\ IF memory_pointer >= TapeLen
       THEN Panic("IndexOutOfBounds") /\ UNCHANGED <<stack, outq, sent>>
       ELSE IF ~rxAlive
       THEN Panic("SendError") /\ UNCHANGED <<stack, outq, sent>>
       ELSE /\ outq' = SendOutput(outq, OkItem(Cell(memory, memory_pointer)))
            /\ sent' = Append(sent, OkItem(Cell(memory, memory_pointer)))
            /\ Advance
            /\ UNCHANGED <<state, fault, abort>>
    /\ UNCHANGED <<memory, memory_pointer, inq, enq, callerVars, configVars>>

\* AstNode::Loop is dispatched: the engine is now at the while test
DoLoop ==
    /\ Dispatch("Loop")
    /\ stack' = [stack EXCEPT ![Len(stack)] = [@ EXCEPT !.st = "loop"]]
    /\ UNCHANGED <<memory, memory_pointer, state, fault, abort, chanVars, callerVars, configVars>>

\* A bug LoopTest could have: the cell tested is the first of the tape, not
\* the one at the pointer
LoopTestFirstCell ==
    /\ EngineRuns
    /\ Top.st = "loop"
    /\ IF memory_pointer >= TapeLen
       THEN Panic("IndexOutOfBounds") /\ UNCHANGED stack
       ELSE /\ IF Cell(memory, 0) # 0
               THEN stack' = Append(stack, Frame(Instr.body))
               ELSE Advance
            /\ UNCHANGED <<state, fault, abort>>
    /\ UNCHANGED <<memory, memory_pointer, iterations, chanVars, callerVars, configVars>>

\* while self.memory[self.memory_pointer as usize] != Wrapping(0) { self.run_body(body)?; }
LoopTest ==
    /\ EngineRuns
    /\ Top.st = "loop"
    /\ IF memory_pointer >= TapeLen
       THEN Panic("IndexOutOfBounds") /\ UNCHANGED stack
       ELSE /\ IF Cell(memory, memory_pointer) # 0
               THEN stack' = Append(stack, Frame(Instr.body))
               ELSE Advance
            /\ UNCHANGED <<state, fault, abort>>
    /\ UNCHANGED <<memory, memory_pointer, iterations, chanVars, callerVars, configVars>>

\* The for loop of run_body is over: Ok(()) goes to the while loop that made
\* the call, or ends the run
ReturnOk ==
    /\ EngineRuns
    /\ Top.st = "fetch"
    /\ Top.pc > Len(Top.body)
    /\ IF Len(stack) = 1
       THEN state' = "Completed" /\ UNCHANGED stack
       ELSE stack' = SubSeq(stack, 1, Len(stack) - 1) /\ UNCHANGED state
    /\ UNCHANGED <<memory, memory_pointer, iterations, fault, abort, chanVars, callerVars, configVars>>

EngineNext ==
    \/ BudgetExceeded
    \/ DoIncrement
    \/ DoSet
    \/ DoMultiplyMove
    \/ DoPointerIncrement
    \/ DoRead
    \/ ReadRecv
    \/ DoWrite
    \/ DoLoop
    \/ LoopTest
    \/ ReturnOk

\* ------------------------------------------------------------ the caller

\* The bytes of the items received before the first error
RECURSIVE Bytes(_)
Bytes(items) ==
    IF items = <<>> \/ Head(items).err # "None" THEN <<>>
    ELSE <<Head(items).byte>> \o Bytes(Tail(items))

\* A holder of input_tx sends a byte (main.rs: tx.send(Wrapping(b))). The
\* send fails, and queues nothing, once the engine has dropped input_rx.
PushInput ==
    /\ mode = "stream"
    /\ txAlive
    /\ state = "Running"
    /\ Len(enq) < MaxInput
    /\ \E b \in InputBytes :
         /\ inq' = Append(inq, b)
         /\ enq' = Append(enq, b)
    /\ UNCHANGED <<engineVars, outq, sent, callerVars, configVars>>

\* The caller drops input_tx
CloseInput ==
    /\ mode = "stream"
    /\ txAlive
    /\ txAlive' = FALSE
    /\ UNCHANGED <<engineVars, chanVars, phase, rxAlive, recvd, result, configVars>>

\* The holder of output_rx receives the oldest item (main.rs: rx.recv())
PullOutput ==
    /\ mode = "stream"
    /\ rxAlive
    /\ outq # <<>>
    /\ recvd' = Append(recvd, Head(outq))
    /\ outq' = Tail(outq)
    /\ UNCHANGED <<engineVars, inq, enq, sent, phase, txAlive, rxAlive, result, configVars>>

\* The caller drops output_rx
DropOutput ==
    /\ mode = "stream"
    /\ rxAlive
    /\ rxAlive' = FALSE
    /\ UNCHANGED <<engineVars, chanVars, phase, txAlive, recvd, result, configVars>>

\* Interpreter::run: inputs.for_each(|i| input_tx.send(i).unwrap()), one byte
BatchSend ==
    /\ mode = "batch"
    /\ phase = "load"
    /\ Len(enq) < Len(input)
    /\ inq' = Append(inq, input[Len(enq) + 1])
    /\ enq' = Append(enq, input[Len(enq) + 1])
    /\ UNCHANGED <<engineVars, outq, sent, callerVars, configVars>>

\* Interpreter::run: every input is sent; inner.run_blocking() is called
BatchExec ==
    /\ mode = "batch"
    /\ phase = "load"
    /\ Len(enq) = Len(input)
    /\ phase' = "exec"
    /\ UNCHANGED <<engineVars, chanVars, txAlive, rxAlive, recvd, result, configVars>>

\* A bug BatchCollect could have: an error item is skipped like a byte
BatchCollectSkipsError ==
    /\ mode = "batch"
    /\ phase = "exec"
    /\ state \in {"Completed", "Faulted"}
    /\ outq # <<>>
    /\ outq' = Tail(outq)
    /\ recvd' = IF Head(outq).err = "None" THEN Append(recvd, Head(outq)) ELSE recvd
    /\ UNCHANGED <<phase, result>>
    /\ UNCHANGED <<engineVars, inq, enq, sent, txAlive, rxAlive, configVars>>

\* Interpreter::run: run_blocking() has returned, and dropped the engine with
\* its output_tx; one turn of for output in output_rx.iter()
BatchCollect ==
    /\ mode = "batch"
    /\ phase = "exec"
    /\ state \in {"Completed", "Faulted"}
    /\ outq # <<>>
    /\ outq' = Tail(outq)
    /\ IF Head(outq).err = "None"
       THEN /\ recvd' = Append(recvd, Head(outq))
            /\ UNCHANGED <<phase, result>>
       ELSE /\ result' = [tag |-> "Err", out |-> Bytes(recvd), err |-> Head(outq).err]
            /\ phase' = "done"
            /\ UNCHANGED recvd
    /\ UNCHANGED <<engineVars, inq, enq, sent, txAlive, rxAlive, configVars>>

\* Interpreter::run: the iterator is over; Ok(outputs)
BatchReturnOk ==
    /\ mode = "batch"
    /\ phase = "exec"
    /\ state \in {"Completed", "Faulted"}
    /\ outq = <<>>
    /\ result' = [tag |-> "Ok", out |-> Bytes(recvd), err |-> "None"]
    /\ phase' = "done"
    /\ UNCHANGED <<engineVars, chanVars, txAlive, rxAlive, recvd, configVars>>

\* Interpreter::run: a panic inside run_blocking() unwinds through run
BatchUnwind ==
    /\ mode = "batch"
    /\ phase = "exec"
    /\ state = "Panicked"
    /\ phase' = "unwound"
    /\ UNCHANGED <<engineVars, chanVars, txAlive, rxAlive, recvd, result, configVars>>

\* Interpreter::run, a sequential function
BatchNext ==
    \/ BatchSend
    \/ BatchExec
    \/ BatchCollect
    \/ BatchReturnOk
    \/ BatchUnwind

\* The holders of input_tx and output_rx of a spawned engine
StreamNext ==
    \/ PushInput
    \/ CloseInput
    \/ PullOutput
    \/ DropOutput

Next == EngineNext \/ BatchNext \/ StreamNext

Spec == Init /\ [][Next]_vars

\* The engine's thread runs as long as it can take a step, and so does the
\* thread inside Interpreter::run; the holders of the handles of a spawned
\* engine are free to do nothing
FairSpec == Spec /\ WF_vars(EngineNext) /\ WF_vars(BatchNext)

\* ------------------------------------------------------------ an Interpreter used again

\* Instruction sequences and inputs of the runs of a reused Interpreter
RerunPrograms ==
    { <<Read, Write>>,
      <<Read, Loop(<<Write, Increment(-1, 0)>>)>>,
      <<Increment(1, 0), Write, Write, PointerIncrement(-1), Write>>,
      <<Set(3, 0), MultiplyMove(<< <<1, 2>>, <<2, -1>> >>), PointerIncrement(1), Write>>,
      <<PointerIncrement(TapeLen), Write>> }
RerunInputs == { <<>>, <<1>>, <<2>>, <<2, 1>> }

\* The call of Interpreter::run in progress has returned, or has unwound
RunEnded == mode = "batch" /\ phase \in {"done", "unwound"}

\* What that call was given and how it ended
Outcome ==
    [ended |-> TRUE, input |-> input, phase |-> phase, result |-> result,
     state |-> state, fault |-> fault, abort |-> abort, sent |-> sent]

\* A bug Restart could have: the tape, the cursor and the counter of the
\* earlier run are used again
RestartReusesEngine ==
    /\ runs < MaxRuns
    /\ runs' = runs + 1
    /\ prev' = IF RunEnded THEN Outcome ELSE prev
    /\ \/ mode' = "batch" /\ phase' = "load" /\ input' \in RerunInputs
       \/ mode' = "stream" /\ phase' = "spawned" /\ input' = <<>>
    /\ UNCHANGED <<memory, memory_pointer, iterations>>
    /\ stack' = <<Frame(instructions)>>
    /\ state' = "Running"
    /\ fault' = "None"
    /\ abort' = "None"
    /\ inq' = <<>>
    /\ outq' = <<>>
    /\ enq' = <<>>
    /\ sent' = <<>>
    /\ txAlive' = TRUE
    /\ rxAlive' = TRUE
    /\ recvd' = <<>>
    /\ result' = NoResult
    /\ UNCHANGED <<instructions, max_iterations, tape0, incSum>>

\* Interpreter::run or Interpreter::spawn is called again on the Interpreter,
\* after the earlier run or while it is still in progress: create builds a new
\* InterpreterInner (instructions.clone(), a new tape, pointer 0, iterations 0,
\* the same max_iterations) and two new channels. Nothing of the earlier run
\* is reachable from the new one, so the earlier run is left out from here on.
Restart ==
    /\ runs < MaxRuns
    /\ runs' = runs + 1
    /\ prev' = IF RunEnded THEN Outcome ELSE prev
    /\ \/ mode' = "batch" /\ phase' = "load" /\ input' \in RerunInputs
       \/ mode' = "stream" /\ phase' = "spawned" /\ input' = <<>>
    /\ memory' = <<>>
    /\ memory_pointer' = 0
    /\ iterations' = 0
    /\ stack' = <<Frame(instructions)>>
    /\ state' = "Running"
    /\ fault' = "None"
    /\ abort' = "None"
    /\ inq' = <<>>
    /\ outq' = <<>>
    /\ enq' = <<>>
    /\ sent' = <<>>
    /\ txAlive' = TRUE
    /\ rxAlive' = TRUE
    /\ recvd' = <<>>
    /\ result' = NoResult
    /\ UNCHANGED <<instructions, max_iterations, tape0, incSum>>

RerunInit ==
    /\ Init
    /\ instructions \in RerunPrograms
    /\ input \in RerunInputs

RerunNext == Next \/ Restart

RerunSpec == RerunInit /\ [][RerunNext]_vars

\* ------------------------------------------------------------ Increment alone

\* Pointers and offsets whose sum indexes the tape
IncPlaces == { <<0, 0>>, <<5, -5>>, <<1, TapeLen - 2>> }

\* A tape whose cell at the effective address holds any byte, next to a cell
\* that is not touched, and an Increment at that address with any amount
IncInit ==
    /\ mode = "unit"
    /\ phase = "unit"
    /\ input = <<>>
    /\ max_iterations = MaxIncs
    /\ iterations = 0
    /\ \E pl \in IncPlaces, v \in U8 :
         /\ instructions = <<Increment(0, pl[2])>>
         /\ memory_pointer = pl[1]
         /\ tape0 = Store(Store(<<>>, 2, 7), pl[1] + pl[2], v)
    /\ memory = tape0
    /\ stack = <<Frame(instructions)>>
    /\ state = "Running"
    /\ fault = "None"
    /\ abort = "None"
    /\ inq = <<>>
    /\ outq = <<>>
    /\ enq = <<>>
    /\ sent = <<>>
    /\ txAlive = TRUE
    /\ rxAlive = TRUE
    /\ recvd = <<>>
    /\ result = NoResult
    /\ incSum = 0
    /\ runs = 1
    /\ prev = NoOutcome

\* One more Increment of the same cell: any i8 first, then the edges of i8
IncStep ==
    /\ mode = "unit"
    /\ iterations < max_iterations
    /\ \E d \in (IF iterations = 0 THEN I8 ELSE EdgeI8) :
         LET r == ExecIncrement(memory, memory_pointer, d, instructions[1].offset)
         IN /\ r.err = "None"
            /\ memory' = r.mem
            /\ incSum' = incSum + d
    /\ iterations' = iterations + 1
    /\ UNCHANGED <<memory_pointer, stack, state, fault, abort, chanVars, callerVars,
                   mode, input, instructions, max_iterations, tape0, runs, prev>>

IncSpec == IncInit /\ [][IncStep]_vars

\* ------------------------------------------------------------ one instruction alone

\* The engine of a spawned run at the start of a body prog, as an earlier part
\* of the run has left it: the tape mem, the cursor p, budget dispatches left
StartAt(prog, mem, p, budget) ==
    /\ mode = "stream"
    /\ phase = "spawned"
    /\ input = <<>>
    /\ instructions = prog
    /\ max_iterations = budget
    /\ memory = mem
    /\ memory_pointer = p
    /\ iterations = 0
    /\ stack = <<Frame(prog)>>
    /\ state = "Running"
    /\ fault = "None"
    /\ abort = "None"
    /\ inq = <<>>
    /\ outq = <<>>
    /\ enq = <<>>
    /\ sent = <<>>
    /\ txAlive = TRUE
    /\ rxAlive = TRUE
    /\ recvd = <<>>
    /\ result = NoResult
    /\ tape0 = mem
    /\ incSum = 0
    /\ runs = 1
    /\ prev = NoOutcome

\* The instruction ins, n times
Repeat(ins, n) == [i \in 1 .. n |-> ins]

\* Set alone: any amount, at an in-bounds address whose cell holds any byte,
\* next to a cell that is not touched; the same Set is dispatched MaxOps times
SetInit ==
    \E pl \in IncPlaces, v \in U8, a \in I8 :
        StartAt(Repeat(Set(a, pl[2]), MaxOps),
                Store(Store(<<>>, 2, 7), pl[1] + pl[2], v), pl[1], MaxOps)

SetSpec == SetInit /\ [][DoSet]_vars

\* (offset, factor) pairs: a target on either side of the cursor and the
\* cursor itself, factors at the edges of i8
MovePairs == {-1, 0, 1} \X {-128, -1, 2, 127}

\* MultiplyMove alone: any byte in the cell at the cursor, between two cells
\* that hold bytes near the two ends of u8, and any list of up to MaxPairs
\* pairs; the same MultiplyMove is dispatched MaxOps times
MoveInit ==
    \E c \in U8, ch \in SeqsUpTo(MovePairs, MaxPairs) :
        StartAt(Repeat(MultiplyMove(ch), MaxOps),
                Store(Store(Store(<<>>, 4, 250), 6, 3), 5, c), 5, MaxOps)

MoveSpec == MoveInit /\ [][DoMultiplyMove]_vars

\* Cursors an instruction can be dispatched at, and offsets that take the
\* effective address to, and one step across, each limit: 0, the length of
\* the tape, the largest isize
AddrCursors == {0, 5, TapeLen - 1, TapeLen}
AddrOffsets ==
    { ISIZE_MIN, -TapeLen - 1, -TapeLen, -6, -5, -1, 0, 1,
      TapeLen - 6, TapeLen - 5, TapeLen - 1, TapeLen,
      ISIZE_MAX - TapeLen, ISIZE_MAX - TapeLen + 1, ISIZE_MAX - 5, ISIZE_MAX - 4, ISIZE_MAX }

\* An instruction that takes offsets, alone, at any of these cursors with any
\* of these offsets; the cell at the cursor holds 0 or not
AddrInit ==
    \E p \in AddrCursors, c \in {0, 200} :
      \E ins \in {Increment(a, o) : a \in {-1, 3}, o \in AddrOffsets}
                   \cup {Set(a, o) : a \in {-1, 3}, o \in AddrOffsets}
                   \cup {MultiplyMove(ch) : ch \in SeqsUpTo(AddrOffsets \X {1}, MaxPairs)} :
        StartAt(<<ins>>,
                LET base == Store(Store(<<>>, 1, 9), TapeLen - 2, 8)
                IN IF p < TapeLen THEN Store(base, p, c) ELSE base,
                p, 1)

AddrNext == DoIncrement \/ DoSet \/ DoMultiplyMove

AddrSpec == AddrInit /\ [][AddrNext]_vars

\* ------------------------------------------------------------ MultiplyMove and its loop

\* Pairs with a nonzero offset, and bytes the cell at the cursor starts with
FusePairs == {-1, 1} \X {-128, -1, 2, 127}
FuseCells == {0, 1, 2, 3, 127, 128, 255}

\* The loop a MultiplyMove stands for: [ -  (offset_1: factor_1) ... ]
FusedLoop(changes) ==
    Loop(<<Increment(-1, 0)>>
           \o [k \in DOMAIN changes |-> Increment(changes[k][2], changes[k][1])])

\* A budget no such loop exhausts: a dispatch for the Loop and, for each of at
\* most 255 passes, one for each instruction of the body
FuseBudget == 1 + 255 * (MaxPairs + 1)

\* Either form alone, on the same tapes, with a budget that is never reached
FuseInit ==
    \E c \in FuseCells, ch \in SeqsUpTo(FusePairs, MaxPairs) :
      \E ins \in {MultiplyMove(ch), FusedLoop(ch)} :
        StartAt(<<ins>>, Store(Store(Store(<<>>, 4, 250), 6, 3), 5, c), 5, FuseBudget)

FuseNext == DoMultiplyMove \/ DoLoop \/ LoopTest \/ DoIncrement \/ ReturnOk

FuseSpec == FuseInit /\ [][FuseNext]_vars

\* ------------------------------------------------------------ claims

\* The bytes among the items, in order
RECURSIVE ByteItems(_)
ByteItems(items) ==
    IF items = <<>> THEN <<>>
    ELSE IF Head(items).err = "None" THEN <<Head(items).byte>> \o ByteItems(Tail(items))
    ELSE ByteItems(Tail(items))

\* The step is one of the engine
EngineStepped == engineVars' # engineVars

\* The step has an effect an instruction has: on the tape, on the cursor, a
\* byte sent on the output channel or a byte taken from the input channel
InstructionEffect ==
    \/ memory' # memory
    \/ memory_pointer' # memory_pointer
    \/ ByteItems(sent') # ByteItems(sent)
    \/ Len(inq') < Len(inq)

ScenarioF == <<Increment(1, 0), Increment(1, 0)>>

\* C1: the counter rises by one at every dispatch (of a Loop, and of each
\* instruction of each pass of a body) and at no other step; every step with
\* the effect of an instruction leaves the counter within the budget, so at most
\* max_iterations dispatches have an effect; the dispatch that takes the
\* counter to max_iterations + 1 changes neither the tape nor the cursor,
\* sends no byte, takes no input, raises MaxIterationsExceeded (which is
\* delivered as the last item when the consumer is there) and ends the run;
\* MaxIterationsExceeded is raised at no other dispatch; nothing is dispatched
\* afterwards. [Increment 1, Increment 1] with budget 1 ends with cell 0 at 1.
C1_BudgetBoundsDispatches ==
    [][ /\ iterations' = IF AtInstruction /\ EngineStepped THEN iterations + 1 ELSE iterations
        /\ InstructionEffect => iterations' <= max_iterations
        /\ (iterations' = iterations + 1 /\ iterations' > max_iterations) =>
              /\ iterations' = max_iterations + 1
              /\ ~InstructionEffect
              /\ fault' = "MaxIterationsExceeded"
              /\ state' \in {"Faulted", "Panicked"}
              /\ rxAlive => /\ state' = "Faulted"
                            /\ sent' = Append(sent, ErrItem("MaxIterationsExceeded"))
        /\ (fault' = "MaxIterationsExceeded" /\ fault = "None") =>
              iterations' = max_iterations + 1
        /\ iterations > max_iterations => ~EngineStepped
        /\ (instructions = ScenarioF /\ max_iterations = 1 /\ state' # "Running") =>
              /\ Cell(memory', 0) = 1
              /\ fault' = "MaxIterationsExceeded"
      ]_vars

\* C1 witness: Scenario F has faulted on its second dispatch, cell 0 at 1
C1_Witness ==
    /\ instructions = ScenarioF
    /\ max_iterations = 1
    /\ iterations = 2
    /\ state = "Faulted"
    /\ fault = "MaxIterationsExceeded"
    /\ Cell(memory, 0) = 1

\* The engine is in inputs.recv() and no byte is there
Starved == state = "Running" /\ Top.st = "recv" /\ inq = <<>>

\* C2: with the engine scheduled, every run leaves Running, unless it waits
\* for input for ever. (The claim asks for Completed or Faulted; a run that
\* never leaves Running refutes it whatever a panic counts as.)
C2_EveryRunHalts == <>(state # "Running") \/ []<>Starved

\* C3: after an instruction that completed without fault the cursor indexes
\* the tape
C3_CursorIndexesTape ==
    state \in {"Running", "Completed"} => (0 <= memory_pointer /\ memory_pointer < TapeLen)

\* The items sent before the first error
BeforeFault(items) == Bytes(items)

\* C4: in batch mode run returns Ok(out) only from Completed and
\* Err((out, kind)) only from Faulted(kind), out being the bytes the Writes
\* sent, in order (those sent before the fault); it returns nothing from
\* another state, and it does return from Completed and from Faulted.
C4_BatchResult ==
    mode = "batch" =>
      /\ result.tag = "Ok" =>
            /\ state = "Completed"
            /\ result.out = ByteItems(sent)
      /\ result.tag = "Err" =>
            /\ state = "Faulted"
            /\ result.err = fault
            /\ result.out = BeforeFault(sent)
            /\ sent = [i \in 1 .. Len(result.out) |-> OkItem(result.out[i])]
                        \o <<ErrItem(fault)>>
      /\ (phase = "done" /\ state = "Completed") => result.tag = "Ok"
      /\ (phase = "done" /\ state = "Faulted") => result.tag = "Err"
      /\ (result.tag # "None") <=> (phase = "done")
      /\ (phase = "exec" /\ state \in {"Completed", "Faulted"}) => ENABLED BatchNext

\* C4 witness: run has returned Err with two bytes of output before the fault
C4_Witness ==
    /\ mode = "batch"
    /\ result.tag = "Err"
    /\ Len(result.out) = 2
    /\ result.err = "OutOfBoundsLeft"

\* C5: in streaming mode every error item on the output channel is the last
\* item ever sent (so there is at most one), and the channel hands the items
\* over in the order they were sent: what the consumer has received, followed
\* by what is still queued, is what was sent.
C5_FaultIsLastItem ==
    mode = "stream" =>
      /\ \A i \in 1 .. Len(sent) : sent[i].err # "None" => i = Len(sent)
      /\ recvd \o outq = sent
      /\ (state = "Faulted") <=> (sent # <<>> /\ sent[Len(sent)].err # "None")
      /\ state = "Faulted" => sent[Len(sent)] = ErrItem(fault)

\* C5 witness: the consumer of a spawned engine has received two bytes and
\* then the error, and nothing is left in the channel
C5_Witness ==
    /\ mode = "stream"
    /\ Len(recvd) = 3
    /\ recvd[1].err = "None"
    /\ recvd[2].err = "None"
    /\ recvd[3].err = "OutOfBoundsLeft"
    /\ outq = <<>>

ScenarioA == <<Read, Write, Read, Write, Read, Write>>

\* C6: the Read that takes the k-th byte from the input channel stores the
\* k-th byte that was sent on it into the cell at the cursor; a Write sends
\* the cell at the cursor as the next item of the output channel; and
\* ,.,.,. completes with the first three bytes sent as its output (in batch
\* mode on a three-byte input: that input).
C6_ChannelOrder ==
    [][ /\ (Len(inq') < Len(inq) /\ state' = "Running") =>
              /\ Len(inq') = Len(inq) - 1
              /\ Cell(memory', memory_pointer) = enq[Len(enq) - Len(inq) + 1]
              /\ inq' = SubSeq(enq, Len(enq) - Len(inq) + 2, Len(enq))
        /\ ByteItems(sent') # ByteItems(sent) =>
              /\ sent' = Append(sent, OkItem(Cell(memory, memory_pointer)))
              /\ outq' = Append(outq, OkItem(Cell(memory, memory_pointer)))
        /\ (instructions = ScenarioA /\ state' = "Completed") =>
              /\ ByteItems(sent') = SubSeq(enq', 1, 3)
              /\ (mode = "batch" /\ Len(input) = 3) => ByteItems(sent') = input
      ]_vars

\* C6 witness: ,.,.,. on [1, 2, 3] has returned [1, 2, 3]
C6_Witness ==
    /\ mode = "batch"
    /\ instructions = ScenarioA
    /\ input = <<1, 2, 3>>
    /\ result = [tag |-> "Ok", out |-> <<1, 2, 3>>, err |-> "None"]

\* C7: in batch mode a Read dispatched when every byte supplied has been
\* consumed does not block: the engine has a next step, and that step ends
\* the run in Faulted.
C7_BatchReadPastInputFaults ==
    (mode = "batch" /\ phase = "exec" /\ Starved) =>
        ENABLED (EngineNext /\ state' = "Faulted")

\* C8: in streaming mode, with input_tx dropped and no byte left in the input
\* channel, the step of the engine at a Read ends the run in Faulted with the
\* I/O-closed kind, sent as the last item of the output channel.
C8_ReadOnClosedInputFaults ==
    [][ (mode = "stream" /\ ~txAlive /\ Starved /\ EngineStepped) =>
            /\ state' = "Faulted"
            /\ fault' = "IoClosed"
            /\ sent' = Append(sent, ErrItem("IoClosed"))
      ]_vars

\* C9: with output_rx dropped, a Write that is dispatched ends the run in
\* Faulted with the I/O-closed kind, and any other error the engine raises
\* ends the run in Faulted as well: no step of the engine ends in a panic
\* on the send.
C9_GoneConsumerFaults ==
    [][ /\ (~rxAlive /\ AtInstruction /\ ~OverBudget /\ Instr.op = "Write"
              /\ memory_pointer < TapeLen /\ EngineStepped) =>
              (state' = "Faulted" /\ fault' = "IoClosed")
        /\ (~rxAlive /\ fault = "None" /\ fault' # "None") => state' = "Faulted"
      ]_vars

\* The i8 that an integer wraps to
WrapI8(n) == ((n + 128) % 256) - 128

\* The effective address of the Increments of IncSpec
IncIndex == memory_pointer + instructions[1].offset

\* C10: after Increments of one in-bounds cell by d1..dn the cell holds
\* (v + d1 + ... + dn) mod 256, v being what it held before; the tape is the
\* one a single Increment by the 8-bit wrapped sum leaves; no other cell and
\* not the cursor has changed.
C10_IncrementsAddMod256 ==
    [][ mode = "unit" =>
          /\ Cell(memory', IncIndex) = (Cell(tape0, IncIndex) + incSum') % 256
          /\ memory' = ExecIncrement(tape0, memory_pointer, WrapI8(incSum'),
                                     instructions[1].offset).mem
          /\ \A j \in (DOMAIN memory' \cup DOMAIN tape0) \ {IncIndex} :
                Cell(memory', j) = Cell(tape0, j)
          /\ memory_pointer' = memory_pointer
      ]_vars

\* C10 witness: the last cell of the tape, at 255, is at 255 again after two
\* Increments by -128 (255, 127, 255)
C10_Witness ==
    /\ mode = "unit"
    /\ iterations = 2
    /\ IncIndex = TapeLen - 1
    /\ Cell(tape0, IncIndex) = 255
    /\ incSum = -256
    /\ Cell(memory, IncIndex) = 255

\* The effective address of the instruction about to be dispatched
Target == memory_pointer + Instr.offset

\* Every cell but those of the set S is the same before and after the step
OnlyTouches(S) ==
    \A j \in (DOMAIN memory \cup DOMAIN memory') \ S : Cell(memory', j) = Cell(memory, j)

\* C11: a Set{amount, offset} at an in-bounds address leaves amount mod 256 in
\* the cell at cursor + offset, whatever the cell held (the tape is the first
\* tape with that one cell replaced); the same Set dispatched again changes
\* nothing; no other cell and not the cursor changes, and the run goes on.
C11_SetStoresByte ==
    [][ /\ Cell(memory', Target) = Instr.amount % 256
        /\ memory' = Store(tape0, Target, Instr.amount % 256)
        /\ iterations >= 1 => memory' = memory
        /\ OnlyTouches({Target})
        /\ memory_pointer' = memory_pointer
        /\ state' = "Running" /\ fault' = "None"
      ]_vars

\* C11 witness: Set{-128} applied twice to the last cell of the tape, which
\* held 255, has left 128 there
C11_Witness ==
    /\ instructions = Repeat(Set(-128, TapeLen - 2), MaxOps)
    /\ iterations = 2
    /\ Cell(tape0, TapeLen - 1) = 255
    /\ Cell(memory, TapeLen - 1) = 128
    /\ Cell(memory, 2) = 7

\* target += d, in u8
AddTo(mem, i, d) == Store(mem, i, (Cell(mem, i) + d) % 256)

\* for each (offset, factor) in order: target += c * factor
RECURSIVE Unrolled(_, _, _, _)
Unrolled(mem, p, c, changes) ==
    IF changes = <<>> THEN mem
    ELSE Unrolled(AddTo(mem, p + Head(changes)[1], c * Head(changes)[2]),
                  p, c, Tail(changes))

\* C12: a MultiplyMove whose targets are in bounds leaves the tape as it is
\* when the cell at the cursor is 0; otherwise, c being that cell at dispatch,
\* it leaves the tape of the unrolled form: c * factor added mod 256 to each
\* target in list order, each addition on the tape the earlier ones left (also
\* for a repeated offset and for offset 0), and then 0 in the cell at the
\* cursor. The cursor stays and the run goes on.
C12_MultiplyMoveUnrolled ==
    [][ LET c == Cell(memory, memory_pointer)
        IN /\ c = 0 => memory' = memory
           /\ c # 0 => memory' = Store(Unrolled(memory, memory_pointer, c, Instr.changes),
                                       memory_pointer, 0)
           /\ Cell(memory', memory_pointer) = 0
           /\ OnlyTouches({memory_pointer + Instr.changes[k][1] : k \in DOMAIN Instr.changes}
                            \cup {memory_pointer})
           /\ memory_pointer' = memory_pointer
           /\ state' = "Running" /\ fault' = "None"
      ]_vars

\* C12 witness: with 3 at the cursor, [(0, 2), (1, 2)] has added 3 * 2 to the
\* source and then 3 * 2, not 9 * 2, to the cell on the right, which held 3,
\* and has left 0 at the cursor
C12_Witness ==
    /\ instructions = Repeat(MultiplyMove(<< <<0, 2>>, <<1, 2>> >>), MaxOps)
    /\ iterations = 1
    /\ Cell(tape0, 5) = 3
    /\ Cell(memory, 5) = 0
    /\ Cell(memory, 6) = 9
    /\ Cell(memory, 4) = 250

Offsets ==
    IF Instr.op = "MultiplyMove"
    THEN [k \in DOMAIN Instr.changes |-> Instr.changes[k][1]]
    ELSE <<Instr.offset>>

\* What the claim asks of the effective address a = p + o: OutOfBoundsLeft
\* when a < 0, OutOfBoundsRight when the addition overflows or a >= 30000
AddrFault(p, o) ==
    IF o > 0 /\ p > ISIZE_MAX - o THEN "OutOfBoundsRight"
    ELSE IF p + o < 0 THEN "OutOfBoundsLeft"
    ELSE IF p + o >= TapeLen THEN "OutOfBoundsRight"
    ELSE "None"

\* The instruction gets as far as its k-th offset: always for Increment and
\* Set; for MultiplyMove when the cell at the cursor is not 0 and the pairs
\* before the k-th are in bounds
Reaches(k) ==
    \/ Instr.op # "MultiplyMove"
    \/ /\ memory_pointer < TapeLen
       /\ Cell(memory, memory_pointer) # 0
       /\ \A j \in 1 .. k - 1 : AddrFault(memory_pointer, Offsets[j]) = "None"

\* The offsets the instruction gets to, and those that are in bounds
Reached == {k \in DOMAIN Offsets : Reaches(k)}
ReachedInBounds == {k \in Reached : AddrFault(memory_pointer, Offsets[k]) = "None"}

\* C14: Increment, Set and MultiplyMove compute a = cursor + offset for the
\* offset of the instruction, and MultiplyMove for each pair it gets to (in
\* list order, when the cell at the cursor is not 0, up to the first pair out
\* of bounds). The instruction faults OutOfBoundsLeft when a < 0 and
\* OutOfBoundsRight when a >= 30000 or the addition overflows, the error being
\* the item sent; with no such address it does not fault. The cells it
\* changes are among the in-bounds addresses it got to (and, for MultiplyMove,
\* the cell at the cursor); a faulting Increment or Set changes no cell.
C14_AddressFaults ==
    [][ /\ \A k \in Reached :
              AddrFault(memory_pointer, Offsets[k]) # "None" =>
                /\ fault' = AddrFault(memory_pointer, Offsets[k])
                /\ state' = "Faulted"
                /\ sent' = Append(sent, ErrItem(fault'))
        /\ Reached = ReachedInBounds =>
              (fault' = "None" /\ state' \in {"Running", "Panicked"})
        /\ OnlyTouches({memory_pointer + Offsets[k] : k \in ReachedInBounds}
                         \cup (IF Instr.op = "MultiplyMove" THEN {memory_pointer} ELSE {}))
        /\ (Instr.op \in {"Increment", "Set"} /\ fault' # "None") => memory' = memory
        /\ (Instr.op \in {"Increment", "Set"} /\ fault' = "None") =>
              /\ state' = "Running"
              /\ memory' = (IF Instr.op = "Set"
                            THEN Store(memory, Target, Instr.amount % 256)
                            ELSE AddTo(memory, Target, Instr.amount))
        /\ memory_pointer' = memory_pointer
      ]_vars

\* C14 as it is worded, for every pair of a MultiplyMove: the instruction
\* faults with the kind the address of the pair asks for
C14_EveryPairFaults ==
    [][ \A k \in DOMAIN Offsets :
          AddrFault(memory_pointer, Offsets[k]) # "None" =>
            fault' = AddrFault(memory_pointer, Offsets[k])
      ]_vars

\* C14 witness: MultiplyMove [(1, 1), (-6, 1)] at cursor 5, the cell there at
\* 200, has added 200 to the cell on the right and then faulted
\* OutOfBoundsLeft on the second pair, the source still at 200
C14_Witness ==
    /\ instructions = <<MultiplyMove(<< <<1, 1>>, <<-6, 1>> >>)>>
    /\ Cell(tape0, 5) = 200
    /\ state = "Faulted"
    /\ fault = "OutOfBoundsLeft"
    /\ Cell(memory, 6) = 200
    /\ Cell(memory, 5) = 200
    /\ sent = <<ErrItem("OutOfBoundsLeft")>>

\* The step dispatches, within the budget, an instruction of the kind opname
Dispatches(opname) ==
    AtInstruction /\ Instr.op = opname /\ ~OverBudget /\ EngineStepped

\* cursor + amount is more than the largest isize (the cursor is never
\* negative at a dispatch, so the sum is never less than the smallest)
SumExceedsIsize == Instr.amount > 0 /\ memory_pointer > ISIZE_MAX - Instr.amount

\* C15: a PointerIncrement that is dispatched raises OutOfBoundsLeft when
\* cursor + amount < 0 and OutOfBoundsRight when cursor + amount > 30000 (a sum
\* beyond the largest isize is such a sum); otherwise it completes without
\* fault with the cursor at cursor + amount, 30000 included. < as the first
\* instruction raises OutOfBoundsLeft on a tape no instruction has changed.
C15_PointerIncrementFaults ==
    [][ Dispatches("PointerIncrement") =>
          /\ (~SumExceedsIsize /\ memory_pointer + Instr.amount < 0) =>
                fault' = "OutOfBoundsLeft"
          /\ (SumExceedsIsize \/ memory_pointer + Instr.amount > TapeLen) =>
                fault' = "OutOfBoundsRight"
          /\ (~SumExceedsIsize /\ memory_pointer + Instr.amount \in 0 .. TapeLen) =>
                /\ fault' = "None"
                /\ state' = "Running"
                /\ memory_pointer' = memory_pointer + Instr.amount
          /\ (iterations = 0 /\ Instr.amount = -1) =>
                /\ fault' = "OutOfBoundsLeft"
                /\ memory' = <<>>
                /\ ByteItems(sent') = <<>>
      ]_vars

\* The step reads or writes self.memory[self.memory_pointer as usize]: a Write
\* or a MultiplyMove that is dispatched, a Read that has received its byte, a
\* Loop at its while test
AccessesCursorCell ==
    \/ Dispatches("Write")
    \/ Dispatches("MultiplyMove")
    \/ EngineRuns /\ Top.st = "recv" /\ EngineStepped /\ inq # <<>>
    \/ EngineRuns /\ Top.st = "loop" /\ EngineStepped

\* C16: at every step in which Read, Write, a Loop test or MultiplyMove
\* accesses the cell at the cursor, the cursor is in 0..29999 or the step
\* raises OutOfBoundsRight; no step of the engine indexes the tape outside
\* 0..29999.
C16_CursorAccessInBounds ==
    [][ /\ AccessesCursorCell =>
              \/ memory_pointer \in 0 .. TapeLen - 1
              \/ fault' = "OutOfBoundsRight"
        /\ abort' # "IndexOutOfBounds"
      ]_vars

ScenarioC == <<Increment(1, 0), Loop(<<Increment(-1, 0)>>)>>
ScenarioD == <<Loop(<<Increment(-1, 0)>>)>>
\* Two cells at 1, then [>]: every pass moves the cursor, so every test but
\* the first is at another cell than the one the loop was entered at
ScenarioMove == <<Set(1, 0), Set(1, 1), Loop(<<PointerIncrement(1)>>)>>

\* The step is the while test of a Loop, at a cursor that indexes the tape
LoopTested == EngineRuns /\ Top.st = "loop" /\ EngineStepped /\ memory_pointer < TapeLen

\* C17: a Loop that is dispatched goes to its test; the test reads the cell
\* at the cursor as it is then: on 0 the Loop is over and the next instruction
\* follows, otherwise a pass of the body starts at its first instruction; the
\* test changes nothing else; a pass ends only after the last instruction of
\* the body, and the test follows it; nothing else starts a pass. So a Loop
\* entered on 0 makes no pass ([-] on a fresh tape completes after its one
\* dispatch), +[-] makes one pass and completes with cell 0 at 0 and no
\* output, and [>] on two cells at 1 makes two passes, each test at the cell
\* the cursor has reached.
C17_LoopTestsCurrentCell ==
    [][ /\ Dispatches("Loop") =>
              /\ stack' = [stack EXCEPT ![Len(stack)].st = "loop"]
              /\ memory' = memory /\ memory_pointer' = memory_pointer
        /\ LoopTested =>
              /\ stack' = IF Cell(memory, memory_pointer) = 0
                          THEN [stack EXCEPT ![Len(stack)].pc = @ + 1,
                                             ![Len(stack)].st = "fetch"]
                          ELSE Append(stack, [body |-> Instr.body, pc |-> 1, st |-> "fetch"])
              /\ memory' = memory /\ memory_pointer' = memory_pointer
              /\ iterations' = iterations /\ sent' = sent /\ state' = "Running"
        /\ (runs' = runs /\ Len(stack') > Len(stack)) =>
              (LoopTested /\ Cell(memory, memory_pointer) # 0)
        /\ (runs' = runs /\ Len(stack') < Len(stack)) =>
              /\ Top.pc = Len(Top.body) + 1
              /\ stack' = SubSeq(stack, 1, Len(stack) - 1)
              /\ stack'[Len(stack')].st = "loop"
              /\ UNCHANGED <<memory, memory_pointer, iterations, state, sent>>
        /\ (instructions = ScenarioC /\ state' = "Completed") =>
              (iterations' = 3 /\ memory' = <<>> /\ sent' = <<>> /\ memory_pointer' = 0)
        /\ (instructions = ScenarioD /\ state' = "Completed") =>
              (iterations' = 1 /\ memory' = <<>> /\ sent' = <<>>)
        /\ (instructions = ScenarioMove /\ state' = "Completed") =>
              (iterations' = 5 /\ memory_pointer' = 2 /\ Cell(memory', 0) = 1)
      ]_vars

\* C17 witness: [>] on two cells at 1 has completed after two passes, the
\* cursor at the third cell and the cell the loop was entered at still at 1
C17_Witness ==
    /\ instructions = ScenarioMove
    /\ state = "Completed"
    /\ iterations = 5
    /\ memory_pointer = 2
    /\ Cell(memory, 0) = 1
    /\ Cell(memory, 2) = 0

\* C18: the step at which an instruction raises a fault ends the run, at any
\* depth of Loops; and from a run that has ended (Completed, Faulted, or dead
\* of a panic) no step changes the tape, the cursor, the counter, the state,
\* the fault or the position in the instructions (no enclosing Loop tests its
\* cell again), sends an item on the output channel or takes a byte from the
\* input channel.
C18_EndStatesAbsorb ==
    [][ /\ (fault = "None" /\ fault' # "None") => state' \in {"Faulted", "Panicked"}
        /\ state' = "Faulted" => (fault' # "None" /\ sent'[Len(sent')] = ErrItem(fault'))
        /\ state # "Running" =>
              /\ UNCHANGED <<memory, memory_pointer, iterations, stack, state, fault, abort>>
              /\ sent' = sent
              /\ Len(inq') >= Len(inq)
              /\ ~AtInstruction /\ ~LoopTested
      ]_vars

\* C18 witness: the budget was exceeded inside a Loop inside a Loop; since
\* then the consumer has received the error and the input has been closed,
\* and the engine is where it was
C18_Witness ==
    /\ mode = "stream"
    /\ state = "Faulted"
    /\ Len(stack) = 3
    /\ iterations = max_iterations + 1
    /\ Top.body = <<Increment(-1, 0)>>
    /\ recvd = <<ErrItem("MaxIterationsExceeded")>>
    /\ ~txAlive

\* run_body as a function: what the engine does alone, its input at hand.
\* r holds the tape, the cursor, the counter, the input not yet read, the
\* items sent and how the run stands: "Running", "Faulted", "Panicked",
\* "Starved" (a Read and no input left) or "Spins" (a Loop with an empty body
\* on a nonzero cell). An overflow of the cursor wraps.
RefFault(r, kind) == [r EXCEPT !.out = Append(@, ErrItem(kind)), !.end = "Faulted"]
RefTape(r, t) == IF t.err = "None" THEN [r EXCEPT !.mem = t.mem]
                 ELSE RefFault([r EXCEPT !.mem = t.mem], t.err)

RECURSIVE RefBody(_, _, _, _)
RECURSIVE RefLoop(_, _, _)
RECURSIVE RefExec(_, _, _)

\* for instruction in body[k..]
RefBody(r, body, k, max) ==
    IF r.end # "Running" \/ k > Len(body) THEN r
    ELSE LET d == [r EXCEPT !.it = @ + 1]
         IN IF d.it > max THEN RefFault(d, "MaxIterationsExceeded")
            ELSE RefBody(RefExec(d, body[k], max), body, k + 1, max)

\* while the cell at the cursor is not 0: run_body(body)?
RefLoop(r, body, max) ==
    IF r.end # "Running" THEN r
    ELSE IF r.ptr >= TapeLen THEN [r EXCEPT !.end = "Panicked"]
    ELSE IF Cell(r.mem, r.ptr) = 0 THEN r
    ELSE IF body = <<>> THEN [r EXCEPT !.end = "Spins"]
    ELSE RefLoop(RefBody(r, body, 1, max), body, max)

\* match instruction
RefExec(r, ins, max) ==
    CASE ins.op = "Increment" -> RefTape(r, ExecIncrement(r.mem, r.ptr, ins.amount, ins.offset))
      [] ins.op = "Set" -> RefTape(r, ExecSet(r.mem, r.ptr, ins.amount, ins.offset))
      [] ins.op = "MultiplyMove" ->
            IF r.ptr >= TapeLen THEN [r EXCEPT !.end = "Panicked"]
            ELSE RefTape(r, ExecMultiplyMove(r.mem, r.ptr, ins.changes))
      [] ins.op = "PointerIncrement" ->
            LET m == CHOOSE x \in MovePointer(r.ptr, ins.amount) : ~x.panic
            IN IF m.err = "None" THEN [r EXCEPT !.ptr = m.ptr]
               ELSE RefFault([r EXCEPT !.ptr = m.ptr], m.err)
      [] ins.op = "Read" ->
            IF r.inp = <<>> THEN [r EXCEPT !.end = "Starved"]
            ELSE IF r.ptr >= TapeLen THEN [r EXCEPT !.inp = Tail(@), !.end = "Panicked"]
            ELSE [r EXCEPT !.mem = Store(@, r.ptr, Head(r.inp)), !.inp = Tail(@)]
      [] ins.op = "Write" ->
            IF r.ptr >= TapeLen THEN [r EXCEPT !.end = "Panicked"]
            ELSE [r EXCEPT !.out = Append(@, OkItem(Cell(r.mem, r.ptr)))]
      [] ins.op = "Loop" -> RefLoop(r, ins.body, max)

\* The run of prog with budget max on the input inp, from a fresh engine
Reference(prog, max, inp) ==
    LET r == RefBody([mem |-> <<>>, ptr |-> 0, it |-> 0, inp |-> inp, out |-> <<>>,
                      end |-> "Running"], prog, 1, max)
    IN [r EXCEPT !.end = IF @ = "Running" THEN "Completed" ELSE @]

IsPrefix(a, b) == Len(a) <= Len(b) /\ a = SubSeq(b, 1, Len(a))

ScenarioEcho == <<Read, Loop(<<Write, Increment(-1, 0)>>)>>

\* C19: the items a run has placed on the output channel are determined by
\* the instructions, the budget and the bytes placed on the input channel, in
\* whatever order the engine, the producer and the consumer take their steps.
\* In streaming mode the items placed so far (received or still queued) are
\* always the first items of the run of the engine alone on the bytes sent so
\* far, and all of them, with the same end, once the run is Completed or
\* Faulted. In batch mode run returns the bytes of that same run on its input
\* and, if that run faults, its fault. So a streaming run that has ended and a
\* batch run that has returned, on the same input, have placed the same items.
C19_StreamEqualsBatch ==
    LET ref == Reference(instructions, max_iterations,
                         IF mode = "batch" THEN input ELSE enq)
    IN /\ mode = "stream" =>
            /\ IsPrefix(recvd \o outq, ref.out)
            /\ state \in {"Completed", "Faulted"} =>
                  (recvd \o outq = ref.out /\ ref.end = state)
       /\ mode = "batch" =>
            /\ IsPrefix(recvd \o outq, ref.out)
            /\ result.tag = "Ok" =>
                  (ref.end = "Completed" /\ [i \in 1 .. Len(result.out) |-> OkItem(result.out[i])] = ref.out)
            /\ result.tag = "Err" =>
                  /\ ref.end = "Faulted"
                  /\ Append([i \in 1 .. Len(result.out) |-> OkItem(result.out[i])],
                            ErrItem(result.err)) = ref.out

\* C19 witness: the consumer of a spawned ,[.-] has received 2 and 1 after the
\* producer sent 2 and then 3, a byte the run did not need, and the run has
\* completed
C19_Witness ==
    /\ mode = "stream"
    /\ instructions = ScenarioEcho
    /\ enq = <<2, 3>>
    /\ state = "Completed"
    /\ recvd = <<OkItem(2), OkItem(1)>>
    /\ outq = <<>>

\* The pairs of the MultiplyMove that is run, or that the loop that is run
\* stands for
FusedChanges ==
    IF instructions[1].op = "MultiplyMove" THEN instructions[1].changes
    ELSE [k \in 1 .. Len(instructions[1].body) - 1 |->
            <<instructions[1].body[k + 1].offset, instructions[1].body[k + 1].amount>>]

\* C20: with nonzero offsets and in-bounds targets, the loop
\* [Increment{-1, 0}, Increment{factor_1, offset_1}, ...], run until it
\* completes on a budget it does not reach, leaves the tape that MultiplyMove
\* leaves on the tape the loop started from, and the cursor where it was; it
\* never faults. (The MultiplyMove run by the engine leaves that tape too.)
C20_MultiplyMoveFusesLoop ==
    /\ memory_pointer = 5
    /\ state \in {"Running", "Completed"}
    /\ iterations <= max_iterations
    /\ state = "Completed" =>
          memory = ExecMultiplyMove(tape0, memory_pointer, FusedChanges).mem

\* C20 witness: the loop [- >(127) <(2)] has completed on a cell at 255
\* after 255 passes, with the tape of MultiplyMove [(1, 127), (-1, 2)]
C20_Witness ==
    /\ instructions = <<FusedLoop(<< <<1, 127>>, <<-1, 2>> >>)>>
    /\ Cell(tape0, 5) = 255
    /\ state = "Completed"
    /\ iterations = 1 + 255 * 3
    /\ Cell(memory, 5) = 0
    /\ Cell(memory, 6) = (3 + 255 * 127) % 256
    /\ Cell(memory, 4) = (250 + 255 * 2) % 256

====
